---- MODULE Spec2Model ----
(***************************************************************************)
(* Model of meshio/ansys_io.py: read() and write() for the Ansys msh       *)
(* format.                                                                 *)
(*                                                                         *)
(* A file is a sequence of bytes (0..255), opened in binary mode as the    *)
(* code opens it.  A line is the bytes up to and including the next byte   *)
(* 10; the code decodes it as UTF-8 and works on the characters (code      *)
(* points).  The scanners _skip_to and _skip_close read and decode one     *)
(* byte at a time.  Binary payloads are read with f.read(n), whatever      *)
(* bytes follow.                                                           *)
(*                                                                         *)
(* Numbers: an integer is an integer of TLC, so the numbers of the texts   *)
(* stay below 2^31; an item of a binary payload has the width of its       *)
(* dtype, an int64 that does not fit 32 bits is kept as its eight bytes,   *)
(* and the arithmetic on arrays wraps at the width of the array.  A        *)
(* floating-point number is kept as what it was read from: the word of     *)
(* the text or the bytes of the payload.                                   *)
(***************************************************************************)
EXTENDS Integers, Sequences, FiniteSets, TLC

\* ------------------------------------------------------------------ bounds
MaxRecords == 3
MaxPoints == 2
MaxCellRows == 2
MaxGroups == 2
MaxEmptyReads == 2

\* -------------------------------------------------------------------- text
\* the printable ASCII characters of the literals below: codes 32..95 and
\* 97..126 in order
Upper == " !\"#$%&'()*+,-./0123456789:;<=>?@ABCDEFGHIJKLMNOPQRSTUVWXYZ[\\]^_"
Lower == "abcdefghijklmnopqrstuvwxyz{|}~"

\* ord(c) of a character of a literal, and '...'.encode('utf8')
Ord(c) ==
    IF \E i \in 1..Len(Upper) : SubSeq(Upper, i, i) = c
    THEN 31 + (CHOOSE i \in 1..Len(Upper) : SubSeq(Upper, i, i) = c)
    ELSE 96 + (CHOOSE i \in 1..Len(Lower) : SubSeq(Lower, i, i) = c)

\* the literals of the source and of the input files, and their bytes
Encoded ==
    [t \in {" ", " (", " (0 ", " (1 2))", " (7", " 0", " 0))", " 1 ", "(",
            "(1 \"meshio ", "(10 (0 ", "(10 (1 ", "(12 (0 1 ", "(12 (1 ",
            "(2 ", "(\"x\")", ")", ")(", "))", "))(", ".", "0", "010", "012",
            "013", "1", "1.0", "10", "12", "13", "2", "3",
            "End of Binary Section ", "\")", "e+", "inf", "infinity", "nan"}
        |-> [i \in 1..Len(t) |-> Ord(SubSeq(t, i, i))]]
Bytes(s) == Encoded[s]

\* '\n'
LF == 10
\* '(' and ')'
Open == Ord("(")
Close == Ord(")")
\* the characters of a sign, of the prefix 0x, of a fraction and an exponent
Signs == {Ord("+"), Ord("-")}
Minus == Ord("-")
Zero == Ord("0")
Prefixes == {Ord("x"), Ord("X")}
Dot == {Ord(".")}
Exponents == {Ord("e"), Ord("E")}
Underscore == Ord("_")
\* the characters of the class [2,3]
FamilyClass == {Ord("2"), Ord(","), Ord("3")}

\* Python's None and a present value
None == <<>>
Some(x) == <<x>>

\* sequences joined end to end: the lines numpy.savetxt writes one after
\* another, the records of a file
RECURSIVE Flatten(_)
Flatten(parts) == IF parts = <<>> THEN <<>> ELSE parts[1] \o Flatten(Tail(parts))

\* ---------------------------------------------------- bytes.decode('utf-8')
Continuation(b, i) == i <= Len(b) /\ b[i] \in 128..191

\* the character that starts at byte i: its code point and the number of
\* bytes it takes; n = 0 when the bytes there are no UTF-8
CharAt(b, i) ==
    LET c == b[i]
    IN  IF c < 128 THEN [n |-> 1, c |-> c]
        ELSE IF c \in 194..223 /\ Continuation(b, i + 1)
             THEN [n |-> 2, c |-> (c - 192) * 64 + (b[i + 1] - 128)]
        ELSE IF /\ c \in 224..239
                /\ Continuation(b, i + 1) /\ Continuation(b, i + 2)
                /\ (c = 224 => b[i + 1] >= 160)
                /\ (c = 237 => b[i + 1] <= 159)
             THEN [n |-> 3, c |-> (c - 224) * 4096 + (b[i + 1] - 128) * 64
                                  + (b[i + 2] - 128)]
        ELSE IF /\ c \in 240..244
                /\ Continuation(b, i + 1) /\ Continuation(b, i + 2)
                /\ Continuation(b, i + 3)
                /\ (c = 240 => b[i + 1] >= 144)
                /\ (c = 244 => b[i + 1] <= 143)
             THEN [n |-> 4, c |-> (c - 240) * 262144 + (b[i + 1] - 128) * 4096
                                  + (b[i + 2] - 128) * 64 + (b[i + 3] - 128)]
        ELSE [n |-> 0, c |-> 0]

RECURSIVE DecodeFrom(_, _)
DecodeFrom(b, i) ==
    LET Before(ch, rest) == [ok |-> rest.ok, s |-> <<ch.c>> \o rest.s]
        From(ch) == IF ch.n = 0 THEN [ok |-> FALSE, s |-> <<>>]
                    ELSE Before(ch, DecodeFrom(b, i + ch.n))
    IN  IF i > Len(b) THEN [ok |-> TRUE, s |-> <<>>] ELSE From(CharAt(b, i))

\* b.decode('utf-8'): ok is FALSE for UnicodeDecodeError
Decode(b) ==
    IF \A i \in 1..Len(b) : b[i] < 128 THEN [ok |-> TRUE, s |-> b]
    ELSE DecodeFrom(b, 1)

\* ------------------------------------------------------------------- lines
\* the smallest element of a set of positions
First(S) == CHOOSE i \in S : \A j \in S : i <= j

\* the first position from i on that holds one of chars, 0 if there is none:
\* looked for in the next n positions, then in the 2n behind them, and so on
RECURSIVE FindIn(_, _, _, _)
FindIn(w, chars, i, n) ==
    LET Among(last, hits) ==
            IF hits # {} THEN First(hits)
            ELSE IF last >= Len(w) THEN 0
            ELSE FindIn(w, chars, last + 1, 2 * n)
        Upto(last) == Among(last, {j \in i..last : w[j] \in chars})
    IN  Upto(IF i + n - 1 < Len(w) THEN i + n - 1 ELSE Len(w))
Find(w, chars, i) == FindIn(w, chars, i, 16)

\* where the line that starts at p ends: at the next '\n' or with the stream
LineEnd(f, p) ==
    LET OrLast(end) == IF end = 0 THEN Len(f) ELSE end
    IN  OrLast(Find(f, {LF}, p))

\* next(islice(f, 1)) at position p <= Len(f): the bytes of the line
ReadLine(f, p) == SubSeq(f, p, LineEnd(f, p))

\* next(islice(f, 1)).decode('utf-8'): ok is FALSE for StopIteration and
\* for UnicodeDecodeError
NextLine(f, p) ==
    LET Decoded(d, end) == [ok |-> d.ok, s |-> d.s, pos |-> end + 1]
        Ending(end) == Decoded(Decode(SubSeq(f, p, end)), end)
    IN  IF p > Len(f) THEN [ok |-> FALSE, s |-> <<>>, pos |-> p]
        ELSE Ending(LineEnd(f, p))

\* the characters str.isspace() and \s hold for
Whitespace ==
    {9, 10, 11, 12, 13, 28, 29, 30, 31, 32, 133, 160, 5760, 8232, 8233, 8239,
     8287, 12288} \cup (8192..8202)

RECURSIVE SkipSpace(_, _)
SkipSpace(s, i) ==
    IF i > Len(s) \/ s[i] \notin Whitespace THEN i ELSE SkipSpace(s, i + 1)

RECURSIVE SkipSpaceBack(_, _)
SkipSpaceBack(s, i) ==
    IF i < 1 \/ s[i] \notin Whitespace THEN i ELSE SkipSpaceBack(s, i - 1)

\* line.strip()
Strip(s) == SubSeq(s, SkipSpace(s, 1), SkipSpaceBack(s, Len(s)))

\* the words from i on: each runs up to the next whitespace
RECURSIVE SplitFrom(_, _)
SplitFrom(s, i) ==
    LET Word(a, b) == <<SubSeq(s, a, b - 1)>> \o SplitFrom(s, b)
        WordEnd(a, end) == Word(a, IF end = 0 THEN Len(s) + 1 ELSE end)
        WordAt(a) == IF a > Len(s) THEN <<>>
                     ELSE WordEnd(a, Find(s, Whitespace, a))
    IN  WordAt(SkipSpace(s, i))

\* line.split()
Split(s) == SplitFrom(s, 1)

\* line.count('(') and line.count(')')
Count(s, char) == Cardinality({i \in 1..Len(s) : s[i] = char})

\* line.strip()[-1] == '(' on a line that is not blank
LastIsOpen(s) ==
    LET OpenAt(i) == i >= 1 /\ s[i] = Open IN OpenAt(SkipSpaceBack(s, Len(s)))

\* ----------------------------------------------------------- int(word, 16)
Digit == 48..57
HexDigit == (48..57) \cup (65..70) \cup (97..102)

DigitValue(c) == IF c <= 57 THEN c - 48 ELSE IF c <= 70 THEN c - 55 ELSE c - 87

\* int() and float() take the decimal digits of every script for the digits
\* 0 to 9: the code points of the digit zero of the scripts beyond ASCII
DecimalZeros ==
    {1632, 1776, 1984, 2406, 2534, 2662, 2790, 2918, 3046, 3174, 3302, 3430,
     3558, 3664, 3792, 3872, 4160, 4240, 6112, 6160, 6470, 6608, 6784, 6800,
     6992, 7088, 7232, 7248, 42528, 43216, 43264, 43472, 43504, 43600, 44016,
     65296, 66720, 68912, 69734, 69872, 69942, 70096, 70384, 70736, 70864,
     71248, 71360, 71472, 71904, 72016, 72784, 73040, 73120, 92768, 92864,
     93008, 120782, 120792, 120802, 120812, 120822, 123200, 123632, 125264,
     130032}

\* a word with every such digit turned into its ASCII digit
AsciiDigits(w) ==
    LET Ascii(c, zeros) ==
            IF zeros = {} THEN c ELSE 48 + c - (CHOOSE z \in zeros : TRUE)
    IN  [i \in 1..Len(w) |->
            IF w[i] < 128 THEN w[i]
            ELSE Ascii(w[i], {z \in DecimalZeros : w[i] \in z..(z + 9)})]

\* a word without its sign
Unsigned(w) == IF w # <<>> /\ w[1] \in Signs THEN Tail(w) ELSE w
IsNegative(w) == w # <<>> /\ w[1] = Minus

\* a word without the prefix 0x or 0X and the one underscore allowed behind it
Unprefixed(u) ==
    IF Len(u) >= 2 /\ u[1] = Zero /\ u[2] \in Prefixes
    THEN LET r == SubSeq(u, 3, Len(u))
         IN  IF r # <<>> /\ r[1] = Underscore THEN Tail(r) ELSE r
    ELSE u

\* digits, single underscores between them
DigitsOk(t, digits) ==
    /\ t # <<>>
    /\ \A i \in 1..Len(t) : t[i] \in digits \/ t[i] = Underscore
    /\ t[1] # Underscore /\ t[Len(t)] # Underscore
    /\ \A i \in 1..(Len(t) - 1) : ~(t[i] = Underscore /\ t[i + 1] = Underscore)

RECURSIVE DigitsValue(_, _)
DigitsValue(t, base) ==
    IF t = <<>> THEN 0
    ELSE LET front == SubSeq(t, 1, Len(t) - 1)
         IN  IF t[Len(t)] = Underscore THEN DigitsValue(front, base)
             ELSE DigitsValue(front, base) * base + DigitValue(t[Len(t)])

\* int(word, 16) succeeds
IsHexText(w) == DigitsOk(Unprefixed(Unsigned(AsciiDigits(w))), HexDigit)
ParseHex(w) ==
    LET Signed(v) == IF IsNegative(w) THEN -v ELSE v
    IN  Signed(DigitsValue(Unprefixed(Unsigned(AsciiDigits(w))), 16))

AllHex(row) == \A i \in 1..Len(row) : IsHexText(row[i])
HexRow(row) == [i \in 1..Len(row) |-> ParseHex(row[i])]

\* ------------------------------------------------------------- float(word)
LowerWord(w) == [i \in 1..Len(w) |-> IF w[i] \in 65..90 THEN w[i] + 32 ELSE w[i]]

\* digits [. [digits]] or . digits
IsMantissa(m) ==
    LET Parts(ip, fp) ==
            /\ ip = <<>> \/ DigitsOk(ip, Digit)
            /\ fp = <<>> \/ DigitsOk(fp, Digit)
            /\ ip # <<>> \/ fp # <<>>
        DotAt(dot) ==
            IF dot = 0 THEN Parts(m, <<>>)
            ELSE Parts(SubSeq(m, 1, dot - 1), SubSeq(m, dot + 1, Len(m)))
    IN  DotAt(Find(m, Dot, 1))

FloatNames == {Bytes("inf"), Bytes("infinity"), Bytes("nan")}

\* float(word) succeeds
IsFloatText(w) ==
    LET Number(u, e) ==
            /\ IsMantissa(IF e = 0 THEN u ELSE SubSeq(u, 1, e - 1))
            /\ e > 0 => DigitsOk(Unsigned(SubSeq(u, e + 1, Len(u))), Digit)
        Body(u) == LowerWord(u) \in FloatNames \/ Number(u, Find(u, Exponents, 1))
    IN  Body(Unsigned(AsciiDigits(w)))

\* float(word): the number, kept as the word it was read from
ParseFloat(w) == [from |-> "text", v |-> w]

AllFloat(row) == \A i \in 1..Len(row) : IsFloatText(row[i])
FloatRow(row) == [i \in 1..Len(row) |-> ParseFloat(row[i])]

\* --------------------------------------------------------- the record's tag
\* where the index starts when the line opens a record: behind \s*\(\s*
TagStart(s) == SkipSpace(s, SkipSpace(s, 1) + 1)

\* re.match('\s*\(\s*([0-9]+).*', line)
TagMatches(s) ==
    LET OpenAt(i) == i <= Len(s) /\ s[i] = Open
        DigitAt(j) == j <= Len(s) /\ s[j] \in Digit
    IN  OpenAt(SkipSpace(s, 1)) /\ DigitAt(TagStart(s))

RECURSIVE DigitRun(_, _)
DigitRun(s, i) ==
    IF i > Len(s) \/ s[i] \notin Digit THEN <<>>
    ELSE <<s[i]>> \o DigitRun(s, i + 1)

\* index = out.group(1)
TagIndex(s) == DigitRun(s, TagStart(s))

\* re.match('[2,3]010', index) and its siblings: a match at the start of
\* index (an index holds digits only, so the comma of the class matches none)
BinaryTagMatches(index, tag) ==
    /\ Len(index) >= 4
    /\ index[1] \in FamilyClass /\ SubSeq(index, 2, 4) = tag

PointsTag == Bytes("010")
CellsTag == Bytes("012")
FacesTag == Bytes("013")

\* ---------------------------------------------------------------- scanners
Out(st, pos) == [st |-> st, pos |-> pos]

\* f.read(1).decode('utf-8'): b'' at the end of the stream, where the loop
\* goes round for ever ("hang"); a byte above 127 is no UTF-8 on its own
\* ("failed").  A scanner stops at the first byte it looks for or cannot
\* decode.
_skip_to(f, p, char) ==
    LET StopAt(stop) ==
            IF stop = 0 THEN Out("hang", Len(f) + 1)
            ELSE IF f[stop] >= 128 THEN Out("failed", stop)
            ELSE Out("ok", stop + 1)
    IN  StopAt(Find(f, {char} \cup (128..255), p))

\* _skip_close over the bytes a..b, num_open_brackets open before them:
\* st is "on" when the loop is still going behind b.  The bytes are taken
\* in order, the range split in halves.
RECURSIVE Closing(_, _, _, _)
Closing(f, a, b, num_open_brackets) ==
    LET One(n) ==
            IF f[a] >= 128 THEN [st |-> "failed", pos |-> a, n |-> n]
            ELSE IF n <= 0 THEN [st |-> "ok", pos |-> a + 1, n |-> n]
            ELSE [st |-> "on", pos |-> a + 1, n |-> n]
        Then(front) ==
            IF front.st # "on" THEN front
            ELSE Closing(f, (a + b) \div 2 + 1, b, front.n)
    IN  IF a > b THEN [st |-> "on", pos |-> a, n |-> num_open_brackets]
        ELSE IF a = b
        THEN One(IF f[a] = Open THEN num_open_brackets + 1
                 ELSE IF f[a] = Close THEN num_open_brackets - 1
                 ELSE num_open_brackets)
        ELSE Then(Closing(f, a, (a + b) \div 2, num_open_brackets))

_skip_close(f, p, num_open_brackets) ==
    LET Closed(c) ==
            IF c.st = "on" THEN Out("hang", Len(f) + 1) ELSE Out(c.st, c.pos)
    IN  IF num_open_brackets <= 0 THEN Out("ok", p)
        ELSE Closed(Closing(f, p, Len(f), num_open_brackets))

\* ------------------------------------------------------- zone descriptors
\* re.match('\s*\(\s*TAG\s*\(([^\)]*)\).*', line) for the point zones and
\* re.match('\s*\(\s*TAG\s*\(([^\)]+)\).*', line) for the cell and face
\* zones, followed by a = [int(num, 16) for num in out.group(..).split()].
\* least: the number of characters the group needs, 0 for '*' and 1 for
\* '+'.  ok is FALSE when the match fails (out is None) or a word is no
\* hexadecimal number.
Descriptor(s, tag, least) ==
    LET Numbers(words) ==
            IF AllHex(words) THEN [ok |-> TRUE, a |-> HexRow(words)]
            ELSE [ok |-> FALSE, a |-> <<>>]
        Group2(j, c) ==
            IF c = 0 \/ c - j - 1 < least THEN [ok |-> FALSE, a |-> <<>>]
            ELSE Numbers(Split(SubSeq(s, j + 1, c - 1)))
        Group1(i, j) ==
            IF /\ TagMatches(s)
               /\ SubSeq(s, i, i + Len(tag) - 1) = tag
               /\ j <= Len(s) /\ s[j] = Open
            THEN Group2(j, Find(s, {Close}, j + 1))
            ELSE [ok |-> FALSE, a |-> <<>>]
        Index(i) == Group1(i, SkipSpace(s, i + Len(tag)))
    IN  Index(TagStart(s))

\* ------------------------------------------------------------- text bodies
\* line = ''; while line.strip() == '': line = next(islice(f, 1)).decode()
RECURSIVE SkipBlank(_, _)
SkipBlank(f, p) ==
    LET Over(l) == IF l.ok /\ Strip(l.s) = <<>> THEN SkipBlank(f, l.pos) ELSE p
    IN  Over(NextLine(f, p))

\* n rows of a text body, each the words of a line (line.split()), blank
\* lines skipped first where the code does.  ok is FALSE when the stream
\* ends first (StopIteration) or a line is no UTF-8.
RECURSIVE ReadRows(_, _, _, _)
ReadRows(f, p, n, skipBlank) ==
    LET Before(l, rest) ==
            [ok |-> rest.ok, rows |-> <<Split(l.s)>> \o rest.rows,
             pos |-> rest.pos]
        From(l) ==
            IF ~l.ok THEN [ok |-> FALSE, rows |-> <<>>, pos |-> l.pos]
            ELSE Before(l, ReadRows(f, l.pos, n - 1, skipBlank))
    IN  IF n <= 0 THEN [ok |-> TRUE, rows |-> <<>>, pos |-> p]
        ELSE From(NextLine(f, IF skipBlank THEN SkipBlank(f, p) ELSE p))

\* --------------------------------------------------------- decoder state
\* s: the locals of read(): pos (the stream cursor), points (list of chunks),
\* cells (dict: type key -> rows), first_point_index_overall,
\* last_point_index, warnings (number of warnings.warn calls).
\* A handler yields st = "ok" (the loop goes on), "failed" (an exception
\* leaves read) or "hang" (a byte scanner sits at end-of-stream).
Res(st, pos, points, cells, fpio, lpi, warnings) ==
    [st |-> st, pos |-> pos, points |-> points, cells |-> cells,
     first_point_index_overall |-> fpio, last_point_index |-> lpi,
     warnings |-> warnings]

Continue(s, pos) ==
    Res("ok", pos, s.points, s.cells, s.first_point_index_overall,
        s.last_point_index, s.warnings)
\* an exception: the locals are gone, the warnings given stay given
Fail(s, warnings) ==
    Res("failed", s.pos, s.points, s.cells, s.first_point_index_overall,
        s.last_point_index, warnings)
Raise(s) == Fail(s, s.warnings)
Spin(s, pos) ==
    Res("hang", pos, s.points, s.cells, s.first_point_index_overall,
        s.last_point_index, s.warnings)

\* the handler's last call is a scanner: r is the state when it returns
Scan(s, sc, r) ==
    IF sc.st = "failed" THEN Fail(s, r.warnings)
    ELSE [r EXCEPT !.st = sc.st, !.pos = sc.pos]

SelfContained(line) == Count(line, Open) = Count(line, Close)

\* ------------------------------------------------------- tags 0, 1 and 2
ReadComment(f, line, p, s) ==
    Scan(s, _skip_close(f, p, Count(line, Open) - Count(line, Close)),
         Continue(s, p))

\* ------------------------------------------------------------ unknown tag
ReadUnknown(f, line, p, s) ==
    Scan(s, _skip_close(f, p, Count(line, Open) - Count(line, Close)),
         Res("ok", p, s.points, s.cells, s.first_point_index_overall,
             s.last_point_index, s.warnings + 1))

\* ----------------------------------------------------------------- tag 10
\* while line.strip()[-1] != '(': line = next(islice(f, 1)).decode('utf-8')
RECURSIVE SeekOpenLine(_, _, _)
SeekOpenLine(f, line, p) ==
    LET Onward(l) == IF ~l.ok THEN [ok |-> FALSE, pos |-> p]
                     ELSE SeekOpenLine(f, l.s, l.pos)
    IN  IF Strip(line) = <<>> THEN [ok |-> FALSE, pos |-> p]
        ELSE IF LastIsOpen(line) THEN [ok |-> TRUE, pos |-> p]
        ELSE Onward(NextLine(f, p))

\* Subsequent without the "+ 1"
SubsequentSameIndex(last_point_index, first_point_index) ==
    last_point_index = None \/ last_point_index[1] = first_point_index

\* the index-contiguity assertion of a point zone with a body
Subsequent(last_point_index, first_point_index) ==
    last_point_index = None \/ last_point_index[1] + 1 = first_point_index

\* FirstOverall overwritten by every zone
FirstOverallLatest(first_point_index_overall, first_point_index) ==
    Some(first_point_index)

\* store the very first point index
FirstOverall(first_point_index_overall, first_point_index) ==
    IF first_point_index_overall = None THEN Some(first_point_index)
    ELSE first_point_index_overall

\* a: the numbers of the descriptor, o: the search for the line that opens
\* the body, rr: the rows read
ReadAsciiPoints(f, line, p, s) ==
    LET Store(a, rr) ==
            IF ~rr.ok THEN Raise(s)
            ELSE IF \E k \in 1..Len(rr.rows) :
                        Len(rr.rows[k]) # a[5] \/ ~AllFloat(rr.rows[k])
                 THEN Raise(s)
            ELSE Scan(s, _skip_close(f, rr.pos, 2),
                      Res("ok", rr.pos,
                          Append(s.points,
                                 [dim |-> a[5],
                                  rows |-> [k \in 1..Len(rr.rows) |->
                                               FloatRow(rr.rows[k])]]),
                          s.cells,
                          FirstOverall(s.first_point_index_overall, a[2]),
                          Some(a[3]), s.warnings))
        Body(a, o) ==
            IF ~o.ok THEN Raise(s)
            ELSE IF a[3] - a[2] + 1 < 0 \/ a[5] < 0 THEN Raise(s)
            ELSE Store(a, ReadRows(f, o.pos, a[3] - a[2] + 1, TRUE))
        Zone(d) ==
            IF ~d.ok \/ Len(d.a) <= 4 THEN Raise(s)
            ELSE IF ~Subsequent(s.last_point_index, d.a[2]) THEN Raise(s)
            ELSE Body(d.a, SeekOpenLine(f, line, p))
    IN  IF SelfContained(line) THEN Continue(s, p)
        ELSE Zone(Descriptor(line, Bytes("10"), 0))

\* ------------------------------------------------------- binary payloads
\* f.read(n): the n bytes that follow, whatever they are.  ok is FALSE for
\* a negative n (ValueError) and when fewer than n bytes are left, which
\* numpy.fromstring or the reshape behind it rejects.
ReadExact(f, p, n) ==
    IF n < 0 \/ p + n - 1 > Len(f) THEN [ok |-> FALSE, bytes |-> <<>>, pos |-> p]
    ELSE [ok |-> TRUE, bytes |-> SubSeq(f, p, p + n - 1), pos |-> p + n]

\* a little-endian int32
Int32(b) ==
    b[1] + b[2] * 256 + b[3] * 65536
    + (IF b[4] >= 128 THEN b[4] - 256 ELSE b[4]) * 16777216

\* a little-endian int64: the integer when it is one of 32 bits, its bytes
\* otherwise
Int64(b) ==
    IF \/ b[4] < 128 /\ \A i \in 5..8 : b[i] = 0
       \/ b[4] >= 128 /\ \A i \in 5..8 : b[i] = 255
    THEN Int32(b)
    ELSE [int64 |-> b]

\* numpy.fromstring(bytes, dtype): the items of w bytes each
Items(bytes, w, dtype) ==
    [k \in 1..(Len(bytes) \div w) |->
        LET b == SubSeq(bytes, (k - 1) * w + 1, k * w)
        IN  IF dtype = "int32" THEN Int32(b)
            ELSE IF dtype = "int64" THEN Int64(b)
            ELSE [from |-> dtype, v |-> b]]

\* .reshape((rows, cols)), keeping the first `keep` columns of each row
Reshape(items, rows, cols, keep) ==
    [r \in 1..rows |-> [c \in 1..keep |-> items[(r - 1) * cols + c]]]

\* family: the first digit of the index, 2 or 3
Family(index) == DigitValue(index[1])
BytesPerItem(family) == IF family = 2 THEN 4 ELSE 8
FloatType(family) == IF family = 2 THEN "float32" ELSE "float64"
IntType(family) == IF family = 2 THEN "int32" ELSE "int64"

\* line = None; while line != 'End of Binary Section %s10)': line = next(...)
RECURSIVE SeekSentinel(_, _, _)
SeekSentinel(f, p, sentinel) ==
    LET Onward(l) ==
            IF ~l.ok THEN [ok |-> FALSE, pos |-> p]
            ELSE IF Strip(l.s) = sentinel THEN [ok |-> TRUE, pos |-> l.pos]
            ELSE SeekSentinel(f, l.pos, sentinel)
    IN  Onward(NextLine(f, p))

Sentinel(tag) == Bytes("End of Binary Section ") \o tag \o <<Close>>

\* if line.strip()[-1] != '(': _skip_to(f, '('), and the loop over last_char
\* of _read_binary_points
SeekOpen(f, line, p) == IF LastIsOpen(line) THEN Out("ok", p) ELSE _skip_to(f, p, Open)

\* ------------------------------------------------------ tags 2010 / 3010
\* _read_binary_points and the unpacking of its result in read(): on a
\* self-contained line the function returns None and the unpacking raises.
\* tag: the four digits of the index, a: the numbers of the descriptor,
\* o: the search for '(', rd: the payload, cl: the search for ')', en: the
\* search for the sentinel line
_read_binary_points(f, line, p, s) ==
    LET Store(tag, a, rd, en) ==
            IF ~en.ok THEN Raise(s)
            ELSE Res("ok", en.pos,
                     Append(s.points,
                            [dim |-> a[5],
                             rows |-> Reshape(Items(rd.bytes,
                                                    BytesPerItem(Family(tag)),
                                                    FloatType(Family(tag))),
                                              a[3] - a[2] + 1, a[5], a[5])]),
                     s.cells, FirstOverall(s.first_point_index_overall, a[2]),
                     Some(a[3]), s.warnings)
        End(tag, a, rd, cl) ==
            IF cl.st = "hang" THEN Spin(s, cl.pos)
            ELSE IF cl.st = "failed" THEN Raise(s)
            ELSE Store(tag, a, rd, SeekSentinel(f, cl.pos, Sentinel(tag)))
        Payload(tag, a, rd) ==
            IF a[3] - a[2] + 1 < 0 \/ a[5] < 0 \/ ~rd.ok THEN Raise(s)
            ELSE End(tag, a, rd, _skip_to(f, rd.pos, Close))
        Body(tag, a, o) ==
            IF o.st = "hang" THEN Spin(s, o.pos)
            ELSE IF o.st = "failed" THEN Raise(s)
            ELSE Payload(tag, a,
                         ReadExact(f, o.pos, a[5] * BytesPerItem(Family(tag))
                                             * (a[3] - a[2] + 1)))
        Zone(tag, d) ==
            IF ~d.ok \/ Len(d.a) <= 4 THEN Raise(s)
            ELSE IF ~Subsequent(s.last_point_index, d.a[2]) THEN Raise(s)
            ELSE Body(tag, d.a, SeekOpen(f, line, p))
        Tagged(tag) == Zone(tag, Descriptor(line, tag, 0))
    IN  IF SelfContained(line) THEN Raise(s)
        ELSE Tagged(SubSeq(TagIndex(line), 1, 4))

\* ------------------------------------------------------ element-type tables
\* element_type_to_key_num_nodes of the cell handlers (tags 12, 2012, 3012)
CellTypeKey(element_type) ==
    CASE element_type = 0 -> "mixed"
      [] element_type = 1 -> "triangle"
      [] element_type = 2 -> "tetra"
      [] element_type = 3 -> "quad"
      [] element_type = 4 -> "hexa"
      [] element_type = 5 -> "pyra"
      [] element_type = 6 -> "wedge"
      [] OTHER -> "KeyError"

\* element_type_to_key_num_nodes of the face handlers (tags 13, 2013, 3013)
FaceTypeKey(element_type) ==
    CASE element_type = 0 -> "mixed"
      [] element_type = 2 -> "line"
      [] element_type = 3 -> "triangle"
      [] element_type = 4 -> "quad"
      [] OTHER -> "KeyError"

NumNodes(key) ==
    CASE key = "line" -> 2
      [] key = "triangle" -> 3
      [] key = "tetra" -> 4
      [] key = "quad" -> 4
      [] key = "hexa" -> 8
      [] key = "pyra" -> 5
      [] key = "wedge" -> 6
      [] OTHER -> 0

\* an array of cells: its dtype ("int32" or "int64") and its rows
Array(dtype, rows) == [dtype |-> dtype, rows |-> rows]

\* cells[key] = data
StoreGroup(cells, key, data) ==
    [k \in DOMAIN cells \cup {key} |-> IF k = key THEN data ELSE cells[k]]

\* if key in cells: cells[key] = numpy.concatenate([cells[key], data])
\* else: cells[key] = data
MergeGroup(cells, key, data) ==
    [k \in DOMAIN cells \cup {key} |->
        IF k # key THEN cells[k]
        ELSE IF key \in DOMAIN cells
             THEN Array(IF cells[key].dtype = data.dtype THEN data.dtype ELSE "int64",
                        cells[key].rows \o data.rows)
        ELSE data]

\* for key in data: merge data[key] into cells
RECURSIVE MergeAll(_, _)
MergeAll(cells, data) ==
    IF DOMAIN data = {} THEN cells
    ELSE LET key == CHOOSE k \in DOMAIN data : TRUE
         IN  MergeAll(MergeGroup(cells, key, data[key]),
                      [k \in DOMAIN data \ {key} |-> data[k]])

\* re.search('[^\)]*\)\s*\)\s*$', line): behind the last two closing
\* parentheses of the line there is whitespace only, and between them
EndsDoubleClose(s) ==
    LET CloseAt(j) == j >= 1 /\ s[j] = Close
        Last(i) == CloseAt(i) /\ CloseAt(SkipSpaceBack(s, i - 1))
    IN  Last(SkipSpaceBack(s, Len(s)))

\* while re.search(...) is None: line = next(islice(f, 1)).decode('utf-8')
RECURSIVE SeekDoubleClose(_, _, _)
SeekDoubleClose(f, line, p) ==
    LET Onward(l) == IF ~l.ok THEN [ok |-> FALSE, pos |-> p]
                     ELSE SeekDoubleClose(f, l.s, l.pos)
    IN  IF EndsDoubleClose(line) THEN [ok |-> TRUE, pos |-> p]
        ELSE Onward(NextLine(f, p))

\* ----------------------------------------------------------------- tag 12
\* a: the numbers of the descriptor, key: the type key of the zone, sk: the
\* search for the line that closes a mixed zone, o: the search for '(',
\* rr: the rows read
ReadAsciiCells(f, line, p, s) ==
    LET Store(key, rr) ==
            IF ~rr.ok THEN Raise(s)
            ELSE IF \E k \in 1..Len(rr.rows) :
                        Len(rr.rows[k]) # NumNodes(key) \/ ~AllHex(rr.rows[k])
                 THEN Raise(s)
            ELSE Scan(s, _skip_close(f, rr.pos, 2),
                      Res("ok", rr.pos, s.points,
                          StoreGroup(s.cells, key,
                                     Array("int64",
                                           [k \in 1..Len(rr.rows) |->
                                               HexRow(rr.rows[k])])),
                          s.first_point_index_overall, s.last_point_index,
                          s.warnings))
        Body(a, key, o) ==
            IF o.st = "hang" THEN Spin(s, o.pos)
            ELSE IF o.st = "failed" THEN Raise(s)
            ELSE IF a[3] - a[2] + 1 < 0 THEN Raise(s)
            ELSE Store(key, ReadRows(f, o.pos, a[3] - a[2] + 1, FALSE))
        \* the warning is given, then the search starts
        Skipped(sk) ==
            IF sk.ok
            THEN Res("ok", sk.pos, s.points, s.cells,
                     s.first_point_index_overall, s.last_point_index,
                     s.warnings + 1)
            ELSE Fail(s, s.warnings + 1)
        Typed(a, key) ==
            IF key = "KeyError" THEN Raise(s)
            ELSE IF key = "mixed" THEN Skipped(SeekDoubleClose(f, line, p))
            ELSE Body(a, key, SeekOpen(f, line, p))
        Zone(d) ==
            IF ~d.ok \/ Len(d.a) <= 4 THEN Raise(s)
            ELSE Typed(d.a, CellTypeKey(d.a[5]))
    IN  IF SelfContained(line) THEN Continue(s, p)
        ELSE Zone(Descriptor(line, Bytes("12"), 1))

\* ------------------------------------------------------ tags 2012 / 3012
\* tag: the four digits of the index, a: the numbers of the descriptor,
\* key: the type key of the zone, o: the search for '(', rd: the payload
ReadBinaryCells(f, line, p, s) ==
    LET Store(tag, a, key, rd) ==
            IF a[3] - a[2] + 1 < 0 \/ ~rd.ok THEN Raise(s)
            ELSE Scan(s, _skip_close(f, rd.pos, 2),
                      Res("ok", rd.pos, s.points,
                          StoreGroup(s.cells, key,
                                     Array(IntType(Family(tag)),
                                           Reshape(Items(rd.bytes,
                                                         BytesPerItem(Family(tag)),
                                                         IntType(Family(tag))),
                                                   a[3] - a[2] + 1,
                                                   NumNodes(key), NumNodes(key)))),
                          s.first_point_index_overall, s.last_point_index,
                          s.warnings))
        Body(tag, a, key, o) ==
            IF o.st = "hang" THEN Spin(s, o.pos)
            ELSE IF o.st = "failed" THEN Raise(s)
            ELSE Store(tag, a, key,
                       ReadExact(f, o.pos, BytesPerItem(Family(tag))
                                           * NumNodes(key) * (a[3] - a[2] + 1)))
        Typed(tag, a, key) ==
            IF key = "KeyError" \/ key = "mixed" THEN Raise(s)
            ELSE Body(tag, a, key, SeekOpen(f, line, p))
        Zone(tag, d) ==
            IF ~d.ok \/ Len(d.a) <= 4 THEN Raise(s)
            ELSE Typed(tag, d.a, CellTypeKey(d.a[5]))
        Tagged(tag) == Zone(tag, Descriptor(line, tag, 1))
    IN  IF SelfContained(line) THEN Continue(s, p)
        ELSE Tagged(SubSeq(TagIndex(line), 1, 4))

\* ----------------------------------------------------------------- tag 13
\* a row of a mixed face zone: type v0 .. vn c0 c1
MixedRowOk(row) ==
    LET Keyed(key) == key # "KeyError" /\ Len(row) = NumNodes(key) + 3
        Typed(type) == type # 0 /\ Keyed(FaceTypeKey(type))
    IN  /\ row # <<>>
        /\ IsHexText(row[1])
        /\ Typed(ParseHex(row[1]))
        /\ \A i \in 2..(Len(row) - 2) : IsHexText(row[i])
MixedRowKey(row) == FaceTypeKey(ParseHex(row[1]))
\* MixedRowNodes keeping the first adjacent-cell id
MixedRowNodesAndCell(row) == HexRow(SubSeq(row, 2, Len(row) - 1))
\* dat[1:num_nodes_per_cell+1]
MixedRowNodes(row) == HexRow(SubSeq(row, 2, Len(row) - 2))

\* data[type_string].append(nodes), row by row, for one type_string
RECURSIVE RowsOfKey(_, _)
RowsOfKey(rows, key) ==
    IF rows = <<>> THEN <<>>
    ELSE IF MixedRowKey(rows[1]) = key
         THEN <<MixedRowNodes(rows[1])>> \o RowsOfKey(Tail(rows), key)
    ELSE RowsOfKey(Tail(rows), key)

\* data = {key: numpy.array(data[key]) for key in data}
MixedData(rows) ==
    [key \in {MixedRowKey(rows[k]) : k \in 1..Len(rows)} |->
        Array("int64", RowsOfKey(rows, key))]

\* a: the numbers of the descriptor, key: the type key of the zone, o: the
\* search for '(', rr: the rows read, data: the rows by type key
ReadAsciiFaces(f, line, p, s) ==
    LET Merge(rr, data) ==
            Scan(s, _skip_close(f, rr.pos, 2),
                 Res("ok", rr.pos, s.points, MergeAll(s.cells, data),
                     s.first_point_index_overall, s.last_point_index,
                     s.warnings))
        Store(a, key, rr) ==
            IF ~rr.ok THEN Raise(s)
            ELSE IF key = "mixed"
            THEN IF \E k \in 1..Len(rr.rows) : ~MixedRowOk(rr.rows[k])
                 THEN Raise(s)
                 ELSE Merge(rr, MixedData(rr.rows))
            ELSE IF a[3] - a[2] + 1 < 0 THEN Raise(s)
            ELSE IF \E k \in 1..Len(rr.rows) :
                        \/ Len(rr.rows[k]) # NumNodes(key) + 2
                        \/ ~AllHex(SubSeq(rr.rows[k], 1, NumNodes(key)))
                 THEN Raise(s)
            ELSE Merge(rr, [k \in {key} |->
                               Array("int64",
                                     [r \in 1..Len(rr.rows) |->
                                         HexRow(SubSeq(rr.rows[r], 1,
                                                       NumNodes(key)))])])
        Body(a, key, o) ==
            IF o.st = "hang" THEN Spin(s, o.pos)
            ELSE IF o.st = "failed" THEN Raise(s)
            ELSE Store(a, key, ReadRows(f, o.pos, a[3] - a[2] + 1, FALSE))
        Typed(a, key) ==
            IF key = "KeyError" THEN Raise(s)
            ELSE Body(a, key, SeekOpen(f, line, p))
        Zone(d) ==
            IF ~d.ok \/ Len(d.a) <= 4 THEN Raise(s)
            ELSE Typed(d.a, FaceTypeKey(d.a[5]))
    IN  IF SelfContained(line) THEN Continue(s, p)
        ELSE Zone(Descriptor(line, Bytes("13"), 1))

\* ------------------------------------------------------ tags 2013 / 3013
\* tag: the four digits of the index, a: the numbers of the descriptor,
\* key: the type key of the zone, o: the search for '(', rd: the payload
ReadBinaryFaces(f, line, p, s) ==
    LET Store(tag, a, key, rd) ==
            IF a[3] - a[2] + 1 < 0 \/ ~rd.ok THEN Raise(s)
            ELSE Scan(s, _skip_close(f, rd.pos, 2),
                      Res("ok", rd.pos, s.points,
                          MergeGroup(s.cells, key,
                                     Array(IntType(Family(tag)),
                                           Reshape(Items(rd.bytes,
                                                         BytesPerItem(Family(tag)),
                                                         IntType(Family(tag))),
                                                   a[3] - a[2] + 1,
                                                   NumNodes(key) + 2,
                                                   NumNodes(key)))),
                          s.first_point_index_overall, s.last_point_index,
                          s.warnings))
        Body(tag, a, key, o) ==
            IF o.st = "hang" THEN Spin(s, o.pos)
            ELSE IF o.st = "failed" THEN Raise(s)
            ELSE IF key = "mixed" THEN Raise(s)
            ELSE Store(tag, a, key,
                       ReadExact(f, o.pos, (a[3] - a[2] + 1)
                                           * BytesPerItem(Family(tag))
                                           * (NumNodes(key) + 2)))
        Typed(tag, a, key) ==
            IF key = "KeyError" THEN Raise(s)
            ELSE Body(tag, a, key, SeekOpen(f, line, p))
        Zone(tag, d) ==
            IF ~d.ok \/ Len(d.a) <= 4 THEN Raise(s)
            ELSE Typed(tag, d.a, FaceTypeKey(d.a[5]))
        Tagged(tag) == Zone(tag, Descriptor(line, tag, 1))
    IN  IF SelfContained(line) THEN Continue(s, p)
        ELSE Tagged(SubSeq(TagIndex(line), 1, 4))

\* ------------------------------------------------------------ finalization
\* numpy.concatenate(points): fails on an empty list and on chunks whose
\* column counts differ
CanConcatenate(points) ==
    /\ points # <<>>
    /\ \A i \in 1..Len(points) : points[i].dim = points[1].dim

RECURSIVE Concatenate(_)
Concatenate(points) ==
    IF points = <<>> THEN <<>>
    ELSE points[1].rows \o Concatenate(Tail(points))

\* the eight bytes of an integer, little-endian two's complement
Bytes8(x) ==
    [i \in 1..8 |-> IF i <= 4 THEN (x \div 256 ^ (i - 1)) % 256
                    ELSE IF x < 0 THEN 255 ELSE 0]

\* a - b on eight bytes, modulo 2^64; borrow is 0 or 1
RECURSIVE Minus8(_, _, _, _)
Minus8(a, b, i, borrow) ==
    LET Byte(d) == <<d % 256>> \o Minus8(a, b, i + 1, IF d < 0 THEN 1 ELSE 0)
    IN  IF i > 8 THEN <<>> ELSE Byte(a[i] - b[i] - borrow)

\* an item of a cell array is an integer or the bytes of a wide int64
IsWide(x) == SubSeq(ToString(x), 1, 1) = "["

\* x - first_point_index_overall on an item of an array of that dtype: the
\* difference modulo 2^32 or 2^64, worked out on the bytes unless both
\* numbers are small
Less(x, by, dtype) ==
    LET small == -1073741823..1073741823
        Wrapped(bytes) ==
            IF dtype = "int32" THEN Int32(SubSeq(bytes, 1, 4)) ELSE Int64(bytes)
        Difference(wide) ==
            IF ~wide /\ x \in small /\ by \in small THEN x - by
            ELSE Wrapped(Minus8(IF wide THEN x.int64 ELSE Bytes8(x),
                                Bytes8(by), 1, 0))
    IN  Difference(dtype = "int64" /\ IsWide(x))

\* cells[key] -= first_point_index_overall
Gauge(array, first_point_index_overall) ==
    Array(array.dtype,
          [r \in 1..Len(array.rows) |->
              [c \in 1..Len(array.rows[r]) |->
                  Less(array.rows[r][c], first_point_index_overall, array.dtype)]])

GaugeAll(cells, first_point_index_overall) ==
    [key \in DOMAIN cells |-> Gauge(cells[key], first_point_index_overall)]

\* ------------------------------------------------------------ the read loop
IsCommentTag(index) == index \in {Bytes("0"), Bytes("1"), Bytes("2")}

IsKnownTag(index) ==
    \/ IsCommentTag(index)
    \/ index \in {Bytes("10"), Bytes("12"), Bytes("13")}
    \/ \E tag \in {PointsTag, CellsTag, FacesTag} : BinaryTagMatches(index, tag)

\* one pass of the body of the loop, the cursor s.pos inside the stream
LoopBody(f, s) ==
    LET Handle(line, p, index) ==
            IF IsCommentTag(index) THEN ReadComment(f, line, p, s)
            ELSE IF index = Bytes("10") THEN ReadAsciiPoints(f, line, p, s)
            ELSE IF BinaryTagMatches(index, PointsTag)
                 THEN _read_binary_points(f, line, p, s)
            ELSE IF index = Bytes("12") THEN ReadAsciiCells(f, line, p, s)
            ELSE IF BinaryTagMatches(index, CellsTag)
                 THEN ReadBinaryCells(f, line, p, s)
            ELSE IF index = Bytes("13") THEN ReadAsciiFaces(f, line, p, s)
            ELSE IF BinaryTagMatches(index, FacesTag)
                 THEN ReadBinaryFaces(f, line, p, s)
            ELSE ReadUnknown(f, line, p, s)
        Pass(l) ==
            IF ~l.ok THEN Raise(s)
            ELSE IF Strip(l.s) = <<>> THEN Continue(s, l.pos)
            ELSE IF ~TagMatches(l.s) THEN Raise(s)
            ELSE Handle(l.s, l.pos, TagIndex(l.s))
    IN  Pass(NextLine(f, s.pos))

\* what follows the loop: None when concatenate raises
Finish(s) ==
    IF CanConcatenate(s.points)
    THEN Some([points |-> Concatenate(s.points),
               cells |-> GaugeAll(s.cells, s.first_point_index_overall[1])])
    ELSE None

\* read(filename) as a whole: how it ends and what it returns
RECURSIVE ReadFrom(_, _)
ReadFrom(f, s) ==
    LET Return(out) == [st |-> IF out = None THEN "failed" ELSE "done",
                        ret |-> out, warnings |-> s.warnings]
    IN  IF s.st # "ok"
        THEN [st |-> s.st, ret |-> None, warnings |-> s.warnings]
        ELSE IF s.pos > Len(f) THEN Return(Finish(s))
        ELSE ReadFrom(f, LoopBody(f, s))

NoCells == [k \in {} |-> <<>>]
read(f) == ReadFrom(f, Res("ok", 1, <<>>, NoCells, None, None, 0))

\* ----------------------------------------------------------------- encoder
\* A mesh handed to write(): points (rows of three coordinates) and cells,
\* the dict as the sequence of its items in iteration order.
meshio_to_ansys_type(key) ==
    CASE key = "triangle" -> 1
      [] key = "tetra" -> 2
      [] key = "quad" -> 3
      [] key = "hex" -> 4
      [] key = "pyra" -> 5
      [] key = "wedge" -> 6
      [] OTHER -> 0

RECURSIVE Digits(_, _)
Digits(n, base) ==
    IF n < base THEN <<n>> ELSE Append(Digits(n \div base, base), n % base)

\* the characters of a sequence of digits
DigitChars(digs) ==
    [i \in 1..Len(digs) |-> IF digs[i] < 10 THEN Zero + digs[i] ELSE 87 + digs[i]]

\* '%x' % n
FormatHex(n) ==
    IF n < 0 THEN <<Minus>> \o DigitChars(Digits(-n, 16))
    ELSE DigitChars(Digits(n, 16))

\* '%d' % n
FormatDec(n) ==
    IF n < 0 THEN <<Minus>> \o DigitChars(Digits(-n, 10))
    ELSE DigitChars(Digits(n, 10))

\* '%.15e' % x of a whole number x of at most 16 digits: d.ddddddddddddddde+XX
FormatE(x) ==
    LET digs == Digits(IF x < 0 THEN -x ELSE x, 10)
        fraction == [i \in 1..15 |-> IF i + 1 <= Len(digs) THEN digs[i + 1] ELSE 0]
        exponent == Len(digs) - 1
    IN  (IF x < 0 THEN <<Minus>> ELSE <<>>)
        \o DigitChars(<<digs[1]>>) \o Bytes(".") \o DigitChars(fraction)
        \o Bytes("e+") \o DigitChars(<<exponent \div 10, exponent % 10>>)

\* ' '.join(words)
RECURSIVE Join(_)
Join(words) ==
    IF words = <<>> THEN <<>>
    ELSE IF Len(words) = 1 THEN words[1]
    ELSE words[1] \o Bytes(" ") \o Join(Tail(words))

\* dim = 2 if all(points[:, 2] == 0.0) else 3
WriteDim(points) ==
    IF \A i \in 1..Len(points) : points[i][3] = 0 THEN 2 ELSE 3

RECURSIVE SumSeq(_)
SumSeq(q) == IF q = <<>> THEN 0 ELSE q[1] + SumSeq(Tail(q))

\* total_num_cells = sum([len(c) for c in cells]): iterating the dict yields
\* its keys, so each term is the length of a key string
TotalNumCells(cells) == SumSeq([i \in 1..Len(cells) |-> Len(cells[i].key)])

\* numpy.savetxt(fh, points, fmt='%.15e')
SavePoints(points) ==
    Flatten([i \in 1..Len(points) |->
        Join([c \in 1..Len(points[i]) |-> FormatE(points[i][c])]) \o <<LF>>])

\* numpy.savetxt(fh, values + first_node_index, fmt='%x')
SaveCells(values, first_node_index) ==
    Flatten([i \in 1..Len(values) |->
        Join([c \in 1..Len(values[i]) |-> FormatHex(values[i][c] + first_node_index)])
        \o <<LF>>])

first_node_index == 1

\* the text of __version__ (meshio/__about__.py)
Version == Bytes("1.0")

WriteHeader == Bytes("(1 \"meshio ") \o Version \o Bytes("\")") \o <<LF>>
WriteDimension(points) == Bytes("(2 ") \o FormatDec(WriteDim(points)) \o Bytes(")") \o <<LF>>
WriteNodeCount(points) ==
    Bytes("(10 (0 ") \o FormatHex(first_node_index) \o Bytes(" ")
    \o FormatHex(Len(points)) \o Bytes(" 0))") \o <<LF>>
WriteCellCount(cells) ==
    Bytes("(12 (0 1 ") \o FormatHex(TotalNumCells(cells)) \o Bytes(" 0))") \o <<LF>>
\* points.shape[1] is 3: the mesh's points have three columns
WriteNodes(points) ==
    Bytes("(10 (1 ") \o FormatHex(first_node_index) \o Bytes(" ")
    \o FormatHex(Len(points)) \o Bytes(" 1 ") \o FormatHex(3) \o Bytes("))(") \o <<LF>>
    \o SavePoints(points) \o Bytes("))") \o <<LF>>

WriteFirstIndex == 0

\* the loop over cells.items(): the text written and whether a key was
\* missing from meshio_to_ansys_type (KeyError, nothing more is written)
RECURSIVE WriteCells(_, _)
WriteCells(cells, first_index) ==
    IF cells = <<>> THEN [ok |-> TRUE, text |-> <<>>]
    ELSE IF meshio_to_ansys_type(cells[1].key) = 0 THEN [ok |-> FALSE, text |-> <<>>]
    ELSE LET values == cells[1].rows
             last_index == first_index + Len(values) - 1
             rest == WriteCells(Tail(cells), last_index + 1)
         IN  [ok |-> rest.ok,
              text |-> Bytes("(12 (1 ") \o FormatHex(first_index) \o Bytes(" ")
                       \o FormatHex(last_index) \o Bytes(" 1 ")
                       \o FormatDec(meshio_to_ansys_type(cells[1].key))
                       \o Bytes(")(") \o <<LF>>
                       \o SaveCells(values, first_node_index)
                       \o Bytes("))") \o <<LF>> \o rest.text]

WriteText(m) ==
    WriteHeader \o WriteDimension(m.points) \o WriteNodeCount(m.points)
    \o WriteCellCount(m.cells) \o WriteNodes(m.points)
    \o WriteCells(m.cells, WriteFirstIndex).text

\* ------------------------------------------------------------- input files
\* The records the model's files are made of.  An entry says what a record
\* holds; RecordText is its text.  expect lists, row by row, the type key
\* and the node indices the record's body spells out.
Entry(kind, family, first, last, type, rows, expect) ==
    [kind |-> kind, family |-> family, first |-> first, last |-> last,
     type |-> type, rows |-> rows, expect |-> expect]

Row(key, nodes) == [key |-> key, nodes |-> nodes]

Entries ==
    { \* point zones [1,1], [2,3], [4,4]: text with the body opened on the
      \* tag line and on a line of its own, float64 and float32
      Entry("points", 0, 1, 1, 2, <<>>, <<>>),
      Entry("points-split", 0, 2, 3, 2, <<>>, <<>>),
      Entry("points", 3, 2, 3, 2, <<>>, <<>>),
      Entry("points", 2, 4, 4, 2, <<>>, <<>>),
      \* count-only declarations of points
      Entry("declaration", 0, 1, 4, 0, <<>>, <<>>),
      Entry("declaration", 3, 1, 4, 0, <<>>, <<>>),
      \* cell zones: triangles as text, mixed as text, triangles as int32
      Entry("cells", 0, 1, 2, 1, <<<<1, 2, 3>>, <<2, 3, 4>>>>,
            <<Row("triangle", <<1, 2, 3>>), Row("triangle", <<2, 3, 4>>)>>),
      Entry("cells", 0, 1, 1, 0, <<<<1, 1, 2, 3>>>>, <<>>),
      Entry("cells", 2, 1, 1, 1, <<<<4, 3, 2>>>>,
            <<Row("triangle", <<4, 3, 2>>)>>),
      \* face zones: triangles as text, mixed as text, triangles as int64
      Entry("faces", 0, 1, 1, 3, <<<<3, 2, 1, 16, 17>>>>,
            <<Row("triangle", <<3, 2, 1>>)>>),
      Entry("faces", 0, 1, 3, 0,
            <<<<3, 1, 2, 3, 16, 17>>, <<2, 4, 1, 18, 19>>, <<3, 2, 2, 4, 16, 0>>>>,
            <<Row("triangle", <<1, 2, 3>>), Row("line", <<4, 1>>),
              Row("triangle", <<2, 2, 4>>)>>),
      Entry("faces", 3, 1, 1, 3, <<<<2, 4, 1, 16, 17>>>>,
            <<Row("triangle", <<2, 4, 1>>)>>),
      \* mixed face zones with a row of type 0 and with a row one field short
      Entry("faces-bad", 0, 1, 2, 0,
            <<<<2, 4, 1, 18, 19>>, <<0, 1, 2, 16, 17>>>>, <<>>),
      Entry("faces-bad", 0, 1, 1, 0, <<<<3, 1, 2, 16, 17>>>>, <<>>),
      \* records of other tags (rows[1][1] is the tag): 39 over three lines,
      \* 20125 on one line
      Entry("other", 0, 0, 0, 0, <<<<39>>>>, <<>>),
      Entry("other-line", 0, 0, 0, 0, <<<<20125>>>>, <<>>),
      \* a blank line
      Entry("blank", 0, 0, 0, 0, <<>>, <<>>) }

\* struct.pack('<d', x) and struct.pack('<f', x) of a whole number
\* 0 <= x < 32: exponent e with 2^e <= x, the fraction in the top bits
Exponent(x) == CHOOSE e \in 0..4 : 2 ^ e <= x /\ x < 2 ^ (e + 1)
Float64LE(x) ==
    IF x = 0 THEN <<0, 0, 0, 0, 0, 0, 0, 0>>
    ELSE LET e == Exponent(x)
         IN  <<0, 0, 0, 0, 0, 0,
               ((1023 + e) % 16) * 16 + (x - 2 ^ e) * 2 ^ (4 - e),
               (1023 + e) \div 16>>
Float32LE(x) ==
    IF x = 0 THEN <<0, 0, 0, 0>>
    ELSE LET e == Exponent(x)
         IN  <<0, 0, ((127 + e) % 2) * 128 + (x - 2 ^ e) * 2 ^ (7 - e),
               (127 + e) \div 2>>

\* struct.pack('<i', x) and struct.pack('<q', x)
IntLE(x, family) == IF family = 2 THEN SubSeq(Bytes8(x), 1, 4) ELSE Bytes8(x)

\* the payload of a binary zone: the items one after the other
Pack(items, family, float) ==
    Flatten([i \in 1..Len(items) |->
        IF float THEN (IF family = 2 THEN Float32LE(items[i]) ELSE Float64LE(items[i]))
        ELSE IntLE(items[i], family)])

\* point i of a zone has the coordinates (i, 0)
PointRows(first, last) ==
    Flatten([i \in 1..(last - first + 1) |->
        FormatDec(first + i - 1) \o Bytes(" 0") \o <<LF>>])
PointItems(first, last) ==
    Flatten([i \in 1..(last - first + 1) |-> <<first + i - 1, 0>>])

\* the text of a tag: 10, 12, 13 or their binary siblings
TagOf(family, section) ==
    IF family = 0 THEN FormatDec(10 + section)
    ELSE FormatDec(family * 1000 + 10 + section)

\* (TAG (zone first last 1 type)
ZoneHead(tag, zone, first, last, type) ==
    Bytes("(") \o tag \o Bytes(" (")
    \o Join(<<FormatHex(zone), FormatHex(first), FormatHex(last), Bytes("1"),
              FormatHex(type)>>)
    \o Bytes(")")

HexLines(rows) ==
    Flatten([i \in 1..Len(rows) |->
        Join([c \in 1..Len(rows[i]) |-> FormatHex(rows[i][c])]) \o <<LF>>])

\* what closes a binary zone
BinaryEnd(tag) == Bytes(")") \o <<LF>> \o Sentinel(tag) \o <<LF>>

RecordText(e) ==
    CASE e.kind = "points" /\ e.family = 0 ->
            ZoneHead(TagOf(0, 0), 1, e.first, e.last, e.type) \o Bytes("(") \o <<LF>>
            \o PointRows(e.first, e.last) \o Bytes("))") \o <<LF>>
      [] e.kind = "points-split" ->
            \* the opening parenthesis of the body on a line of its own
            ZoneHead(TagOf(0, 0), 1, e.first, e.last, e.type) \o <<LF>>
            \o Bytes("(") \o <<LF>>
            \o PointRows(e.first, e.last) \o Bytes("))") \o <<LF>>
      [] e.kind = "points" /\ e.family # 0 ->
            ZoneHead(TagOf(e.family, 0), 1, e.first, e.last, e.type) \o <<LF>>
            \o Bytes("(") \o Pack(PointItems(e.first, e.last), e.family, TRUE)
            \o BinaryEnd(TagOf(e.family, 0))
      [] e.kind = "declaration" ->
            Bytes("(") \o TagOf(e.family, 0) \o Bytes(" (0 ")
            \o FormatHex(e.first) \o Bytes(" ") \o FormatHex(e.last)
            \o Bytes(" 0))") \o <<LF>>
      [] e.kind \in {"cells", "faces", "faces-bad"} /\ e.family = 0 ->
            ZoneHead(TagOf(0, IF e.kind = "cells" THEN 2 ELSE 3), 2,
                     e.first, e.last, e.type)
            \o Bytes("(") \o <<LF>> \o HexLines(e.rows) \o Bytes("))") \o <<LF>>
      [] e.kind \in {"cells", "faces"} /\ e.family # 0 ->
            ZoneHead(TagOf(e.family, IF e.kind = "cells" THEN 2 ELSE 3), 2,
                     e.first, e.last, e.type)
            \o (IF e.kind = "cells" THEN Bytes("(") \o <<LF>>
                ELSE <<LF>> \o Bytes("("))
            \o Pack(Flatten(e.rows), e.family, FALSE)
            \o BinaryEnd(TagOf(e.family, IF e.kind = "cells" THEN 2 ELSE 3))
      [] e.kind = "other" ->
            Bytes("(") \o FormatDec(e.rows[1][1]) \o Bytes(" (7") \o <<LF>>
            \o Bytes("(\"x\")") \o <<LF>> \o Bytes("))") \o <<LF>>
      [] e.kind = "other-line" ->
            Bytes("(") \o FormatDec(e.rows[1][1]) \o Bytes(" (1 2))") \o <<LF>>
      [] e.kind = "blank" -> <<LF>>

Records == {RecordText(e) : e \in Entries}

\* a file cut short inside its only record
Truncated == UNION {{SubSeq(r, 1, n) : n \in 1..(Len(r) - 1)} : r \in Records}

\* ------------------------------------------------------------ input meshes
\* the keys of the groups handed to write(): those of meshio_to_ansys_type
\* and hexa, the key read() gives the eight-node cells
WriteKeys == {"triangle", "tetra", "quad", "hex", "pyra", "wedge", "hexa"}

\* the number of nodes of a cell of a group
Arity(key) == IF key = "hex" THEN 8 ELSE NumNodes(key)

\* row j of a group: consecutive node indices, some of them above 9 and 15
CellRow(key, j) == [i \in 1..Arity(key) |-> (j - 1) * 13 + i - 1]
Group(key, n) == [key |-> key, rows |-> [j \in 1..n |-> CellRow(key, j)]]

\* point i is (i, 0, z): z is 0 everywhere, or 1 at the last point
MeshPoints(n, shape) ==
    [i \in 1..n |-> <<i, 0, IF shape = "last" /\ i = n THEN 1 ELSE 0>>]
PointSets == {MeshPoints(n, shape) : n \in 0..MaxPoints, shape \in {"flat", "last"}}

\* the keys of a mesh, one group each
DistinctKeys(q) == \A i, j \in 1..Len(q) : i # j => q[i] # q[j]
KeyLists ==
    UNION {{q \in [1..n -> WriteKeys] : DistinctKeys(q)} : n \in 0..MaxGroups}

\* the groups of a mesh of size n: the first has n cells, every later one a
\* cell less than the one before it, MaxCellRows behind 0
GroupSize(n, i) == (n + (MaxCellRows + 1) * i - (i - 1)) % (MaxCellRows + 1)
CellDicts ==
    {[i \in 1..Len(q) |-> Group(q[i], GroupSize(n, i))] :
        q \in KeyLists, n \in 0..MaxCellRows}
\* ------------------------------------------------------------------- state
VARIABLES
    mesh,                       \* the mesh handed to write(), or None
    file,                       \* the file's bytes
    pc,                         \* "write", "read", "done", "failed", "hang"
    pos,                        \* read(): the stream cursor
    points,                     \* read(): points, the list of chunks
    cells,                      \* read(): cells
    first_point_index_overall,  \* read(): None or the index
    last_point_index,           \* read(): None or the index
    warnings,                   \* number of warnings.warn calls
    emptyReads,                 \* f.read(1) calls answered with b'' in a scanner
    ret                         \* None or what read() returned

vars == <<mesh, file, pc, pos, points, cells, first_point_index_overall,
          last_point_index, warnings, emptyReads, ret>>

Init ==
    /\ \/ \* a file of up to MaxRecords records, or a truncated one, to read
          /\ mesh = None /\ pc = "read"
          /\ \/ \E n \in 0..MaxRecords : \E q \in [1..n -> Records] :
                    file = Flatten(q)
             \/ file \in Truncated
       \/ \* a mesh to write and read back
          /\ pc = "write" /\ file = <<>>
          /\ \E ps \in PointSets : \E cs \in CellDicts :
                mesh = Some([points |-> ps, cells |-> cs])
    /\ pos = 1
    /\ points = <<>>
    /\ cells = NoCells
    /\ first_point_index_overall = None
    /\ last_point_index = None
    /\ warnings = 0
    /\ emptyReads = 0
    /\ ret = None

\* the locals of read() as the handlers take them
Locals ==
    Res("ok", pos, points, cells, first_point_index_overall, last_point_index,
        warnings)

\* the state after a handler that yielded r
Apply(r) ==
    /\ pc' = IF r.st = "ok" THEN "read" ELSE r.st
    /\ pos' = r.pos
    /\ points' = r.points
    /\ cells' = r.cells
    /\ first_point_index_overall' = r.first_point_index_overall
    /\ last_point_index' = r.last_point_index
    /\ warnings' = r.warnings
    /\ emptyReads' = IF r.st = "hang" THEN 1 ELSE emptyReads
    /\ UNCHANGED <<mesh, file, ret>>

\* write(filename, points, cells)
Write ==
    /\ pc = "write"
    /\ LET m == mesh[1]
       IN  /\ file' = WriteText(m)
           /\ pc' = IF WriteCells(m.cells, WriteFirstIndex).ok THEN "read" ELSE "failed"
    /\ UNCHANGED <<mesh, pos, points, cells, first_point_index_overall,
                   last_point_index, warnings, emptyReads, ret>>

\* the line the loop of read() is at, decoded, and the cursor behind it
Line == NextLine(file, pos).s
Behind == LineEnd(file, pos) + 1
\* the loop has a line l = NextLine(file, pos) that is UTF-8, not blank and
\* opens a record
AtRecord(l) ==
    /\ pc = "read" /\ pos <= Len(file)
    /\ l.ok /\ Strip(l.s) # <<>> /\ TagMatches(l.s)

\* except StopIteration: break, and what follows the loop
ReadEof ==
    /\ pc = "read" /\ pos > Len(file)
    /\ LET out == Finish(Locals)
       IN  /\ ret' = out
           /\ pc' = IF out = None THEN "failed" ELSE "done"
    /\ UNCHANGED <<mesh, file, pos, points, cells, first_point_index_overall,
                   last_point_index, warnings, emptyReads>>

\* if line.strip() == '': continue
ReadBlankLine ==
    LET l == NextLine(file, pos)
    IN  /\ pc = "read" /\ pos <= Len(file) /\ l.ok /\ Strip(l.s) = <<>>
        /\ Apply(Continue(Locals, l.pos))

\* UnicodeDecodeError, and assert out
ReadBadLine ==
    LET l == NextLine(file, pos)
    IN  /\ pc = "read" /\ pos <= Len(file)
        /\ ~l.ok \/ (Strip(l.s) # <<>> /\ ~TagMatches(l.s))
        /\ Apply(Raise(Locals))

ReadCommentRecord ==
    LET l == NextLine(file, pos)
    IN  /\ AtRecord(l) /\ IsCommentTag(TagIndex(l.s))
        /\ Apply(ReadComment(file, l.s, l.pos, Locals))

ReadPointsRecord ==
    LET l == NextLine(file, pos)
    IN  /\ AtRecord(l) /\ TagIndex(l.s) = Bytes("10")
        /\ Apply(ReadAsciiPoints(file, l.s, l.pos, Locals))

ReadBinaryPointsRecord ==
    LET l == NextLine(file, pos)
    IN  /\ AtRecord(l) /\ BinaryTagMatches(TagIndex(l.s), PointsTag)
        /\ Apply(_read_binary_points(file, l.s, l.pos, Locals))

ReadCellsRecord ==
    LET l == NextLine(file, pos)
    IN  /\ AtRecord(l) /\ TagIndex(l.s) = Bytes("12")
        /\ Apply(ReadAsciiCells(file, l.s, l.pos, Locals))

ReadBinaryCellsRecord ==
    LET l == NextLine(file, pos)
    IN  /\ AtRecord(l) /\ BinaryTagMatches(TagIndex(l.s), CellsTag)
        /\ Apply(ReadBinaryCells(file, l.s, l.pos, Locals))

ReadFacesRecord ==
    LET l == NextLine(file, pos)
    IN  /\ AtRecord(l) /\ TagIndex(l.s) = Bytes("13")
        /\ Apply(ReadAsciiFaces(file, l.s, l.pos, Locals))

ReadBinaryFacesRecord ==
    LET l == NextLine(file, pos)
    IN  /\ AtRecord(l) /\ BinaryTagMatches(TagIndex(l.s), FacesTag)
        /\ Apply(ReadBinaryFaces(file, l.s, l.pos, Locals))

ReadUnknownRecord ==
    LET l == NextLine(file, pos)
    IN  /\ AtRecord(l) /\ ~IsKnownTag(TagIndex(l.s))
        /\ Apply(ReadUnknown(file, l.s, l.pos, Locals))

\* a scanner at end-of-stream: f.read(1) yields b'' and the loop goes round
ScanAtEof ==
    /\ pc = "hang" /\ emptyReads < MaxEmptyReads
    /\ emptyReads' = emptyReads + 1
    /\ UNCHANGED <<mesh, file, pc, pos, points, cells, first_point_index_overall,
                   last_point_index, warnings, ret>>

Next ==
    \/ Write
    \/ ReadEof
    \/ ReadBlankLine
    \/ ReadBadLine
    \/ ReadCommentRecord
    \/ ReadPointsRecord
    \/ ReadBinaryPointsRecord
    \/ ReadCellsRecord
    \/ ReadBinaryCellsRecord
    \/ ReadFacesRecord
    \/ ReadBinaryFacesRecord
    \/ ReadUnknownRecord
    \/ ScanAtEof

Spec == Init /\ [][Next]_vars

\* ------------------------------------------------- reading a file's records
NoEntry == Entry("none", 0, 0, 0, 0, <<>>, <<>>)

\* the entry of each record text
EntryOfText == [r \in Records |-> CHOOSE e \in Entries : RecordText(e) = r]

\* the record texts the bytes from p on start with: none or one, as no
\* record text starts another
RecordsAt(f, p) ==
    {r \in Records : /\ p + Len(r) - 1 <= Len(f)
                     /\ f[p + Len(r) - 1] = LF
                     /\ SubSeq(f, p, p + Len(r) - 1) = r}

\* the entry whose text starts at p
EntryAt(f, p) ==
    LET at == RecordsAt(f, p)
    IN  IF at = {} THEN NoEntry ELSE EntryOfText[CHOOSE r \in at : TRUE]

\* where the record that starts at p ends: at its last newline
RecordEnd(f, p) ==
    LET at == RecordsAt(f, p)
    IN  IF at = {} THEN Len(f) ELSE p + Len(CHOOSE r \in at : TRUE) - 1

\* the entries of the records that end before position q
RECURSIVE EntriesUpTo(_, _, _)
EntriesUpTo(f, p, q) ==
    IF p >= q \/ p > Len(f) THEN <<>>
    ELSE <<EntryAt(f, p)>> \o EntriesUpTo(f, RecordEnd(f, p) + 1, q)

EntriesOf(f) == EntriesUpTo(f, 1, Len(f) + 1)
MadeOfRecords(f) == LET q == EntriesOf(f) IN \A i \in 1..Len(q) : q[i] # NoEntry

IsZone(e) == e.kind \in {"points", "points-split"}

RECURSIVE ZonesOf(_)
ZonesOf(q) ==
    IF q = <<>> THEN <<>>
    ELSE IF IsZone(q[1]) THEN <<q[1]>> \o ZonesOf(Tail(q))
    ELSE ZonesOf(Tail(q))

RECURSIVE OthersOf(_)
OthersOf(q) ==
    IF q = <<>> THEN <<>>
    ELSE IF IsZone(q[1]) THEN OthersOf(Tail(q))
    ELSE <<q[1]>> \o OthersOf(Tail(q))

\* the rows a sequence of entries spells out for one type key, in order
RECURSIVE RowsFor(_, _)
RowsFor(expect, key) ==
    IF expect = <<>> THEN <<>>
    ELSE IF expect[1].key = key THEN <<expect[1].nodes>> \o RowsFor(Tail(expect), key)
    ELSE RowsFor(Tail(expect), key)

ExpectOf(q) == Flatten([i \in 1..Len(q) |-> q[i].expect])
KeysOf(expect) == {expect[i].key : i \in 1..Len(expect)}

Shifted(rows, by) ==
    [r \in 1..Len(rows) |-> [c \in 1..Len(rows[r]) |-> rows[r][c] - by]]

TextOf(q) == Flatten([i \in 1..Len(q) |-> RecordText(q[i])])

RECURSIVE Lines(_, _)
Lines(f, p) ==
    IF p > Len(f) THEN <<>>
    ELSE <<ReadLine(f, p)>> \o Lines(f, LineEnd(f, p) + 1)

\* ------------------------------------------------------------------ claims
WriteReadOver == mesh # None /\ pc \in {"done", "failed", "hang"}
KeysOfMesh(m) == {m.cells[i].key : i \in 1..Len(m.cells)}
\* the type keys the round trip is claimed for
SupportedKeys == {"triangle", "tetra", "quad", "hexa", "pyra", "wedge"}

\* C1: round trip.  For every mesh whose groups use only the keys triangle,
\* tetra, quad, hexa, pyra and wedge, write followed by read succeeds and
\* returns as many points as the mesh has and, for each key, a group under
\* that key with the same node tuples in the same order.
C1_RoundTrip ==
    (WriteReadOver /\ KeysOfMesh(mesh[1]) \subseteq SupportedKeys) =>
        /\ pc = "done"
        /\ Len(ret[1].points) = Len(mesh[1].points)
        /\ DOMAIN ret[1].cells = KeysOfMesh(mesh[1])
        /\ \A i \in 1..Len(mesh[1].cells) :
              ret[1].cells[mesh[1].cells[i].key].rows = mesh[1].cells[i].rows

\* the text write() has produced, right after a write that raised nothing
Written == mesh # None /\ pc = "read" /\ pos = 1
WrittenLines == Lines(file, 1)
MeshCellCount(m) == SumSeq([i \in 1..Len(m.cells) |-> Len(m.cells[i].rows)])

\* C7: the count-only declaration of cells (tag 12) written by write declares
\* the range 1..N, N the sum of the numbers of cells of all groups.
C7_CellCountDeclaration ==
    Written =>
        LET d == Descriptor(WrittenLines[4], Bytes("12"), 1)
        IN  /\ d.ok /\ SelfContained(WrittenLines[4])
            /\ d.a[2] = 1
            /\ d.a[3] = MeshCellCount(mesh[1])

\* C8: the dimensionality record (tag 2) carries 2 if every third coordinate
\* is zero and 3 otherwise, the point block declares that same number as its
\* ND field and writes that many columns per row.
MeshDim(m) == IF \A i \in 1..Len(m.points) : m.points[i][3] = 0 THEN 2 ELSE 3
\* the number a record (TAG number) carries
RecordNumber(line) ==
    DigitsValue(DigitRun(line, SkipSpace(line, TagStart(line) + Len(TagIndex(line)))), 10)
C8_DimensionConsistency ==
    Written =>
        LET dim == MeshDim(mesh[1])
            d == Descriptor(WrittenLines[5], Bytes("10"), 0)
        IN  /\ TagIndex(WrittenLines[2]) = Bytes("2")
            /\ RecordNumber(WrittenLines[2]) = dim
            /\ d.ok /\ d.a[5] = dim
            /\ \A i \in 1..Len(mesh[1].points) : Len(Split(WrittenLines[5 + i])) = dim

\* the descriptors of the cell blocks of the written text, in order
RECURSIVE CellBlocks(_)
CellBlocks(lines) ==
    IF lines = <<>> THEN <<>>
    ELSE IF TagMatches(lines[1]) /\ TagIndex(lines[1]) = Bytes("12")
            /\ ~SelfContained(lines[1])
         THEN <<Descriptor(lines[1], Bytes("12"), 1).a>> \o CellBlocks(Tail(lines))
    ELSE CellBlocks(Tail(lines))

\* C9: the index ranges of the cell blocks written by write start at 1, each
\* later one starts right after the one before, each spans as many indices
\* as its group has cells, and together they are 1..(total number of cells).
C9_CellNumbering ==
    Written =>
        LET b == CellBlocks(WrittenLines)
            m == mesh[1]
        IN  /\ Len(b) = Len(m.cells)
            /\ Len(b) > 0 => b[1][2] = 1
            /\ \A i \in 2..Len(b) : b[i][2] = b[i - 1][3] + 1
            /\ \A i \in 1..Len(b) : b[i][3] - b[i][2] + 1 = Len(m.cells[i].rows)
            /\ Len(b) > 0 => b[Len(b)][3] = MeshCellCount(m)

\* the record the loop of read() is about to take, and the point zones with
\* a body among the records before it
Here == EntryAt(file, pos)
ZonesBefore == ZonesOf(EntriesUpTo(file, 1, pos))
AtZone == mesh = None /\ pc = "read" /\ IsZone(Here)
Gap == ZonesBefore # <<>> /\ ZonesBefore[Len(ZonesBefore)].last + 1 # Here.first

\* C2: index contiguity.  At every point zone with a body (text or binary,
\* whatever lies in between) other than the first: when its first index is
\* not the last index of the point zone before it plus one, read raises and
\* returns nothing; when it is, read goes on with the zone's points taken.
\* Count-only declarations are no point zones here.
C2_IndexContiguity ==
    [][AtZone =>
          IF Gap THEN pc' = "failed" /\ ret' = None
          ELSE /\ pc' = "read"
               /\ Len(points') = Len(points) + 1
               /\ Len(points'[Len(points')].rows) = Here.last - Here.first + 1
               /\ last_point_index' = Some(Here.last)]_vars

\* a read stopped at a binary zone that leaves a gap behind a text zone, a
\* record of another kind in between
C2_Witness ==
    /\ mesh = None /\ pc = "failed" /\ IsZone(Here) /\ Here.family # 0
    /\ ZonesBefore # <<>>
    /\ ZonesBefore[Len(ZonesBefore)].family = 0
    /\ ZonesBefore[Len(ZonesBefore)].last + 1 # Here.first
    /\ Len(EntriesUpTo(file, 1, pos)) > Len(ZonesBefore)

\* a read that returned a mesh from a file made of the records above
ReadDone == mesh = None /\ pc = "done" /\ MadeOfRecords(file)

Min(S) == CHOOSE x \in S : \A y \in S : x <= y
ZoneFirsts(q) == {ZonesOf(q)[i].first : i \in 1..Len(ZonesOf(q))}

\* C3: index rebasing.  After a successful read every node index of every
\* returned group is an index written in the file minus
\* first_point_index_overall; first_point_index_overall is the first index
\* of the first point zone with a body and the smallest first index of all
\* point zones; and the returned groups are the same with the point zones
\* moved before or behind all other records.
C3_IndexRebasing ==
    ReadDone =>
        LET q == EntriesOf(file)
            base == ZonesOf(q)[1].first
        IN  /\ first_point_index_overall = Some(base)
            /\ base = Min(ZoneFirsts(q))
            /\ LET expect == ExpectOf(q)
               IN  \A key \in DOMAIN ret[1].cells :
                     \A r \in 1..Len(ret[1].cells[key].rows) :
                        \E x \in 1..Len(expect) :
                           /\ expect[x].key = key
                           /\ ret[1].cells[key].rows[r] =
                                 Shifted(<<expect[x].nodes>>, base)[1]
            /\ read(TextOf(ZonesOf(q) \o OthersOf(q))).ret[1].cells = ret[1].cells
            /\ read(TextOf(OthersOf(q) \o ZonesOf(q))).ret[1].cells = ret[1].cells

\* a mesh returned from a file whose first point zone starts at 2, a later
\* zone behind it, and cells read before the first point zone
C3_Witness ==
    /\ ReadDone
    /\ first_point_index_overall = Some(2)
    /\ Len(ZonesOf(EntriesOf(file))) > 1
    /\ ~IsZone(EntriesOf(file)[1])
    /\ DOMAIN ret[1].cells # {}

\* C4: fail fast on truncated input.  No scanner goes on reading once the
\* stream has ended: a read that met end-of-stream inside _skip_close,
\* _skip_to or the search for the body of a binary point zone has failed.
C4_FailFast == emptyReads > 0 => pc = "failed"

IsOther(e) == e.kind \in {"other", "other-line"}

\* C5: unknown-tag resilience.  A record of a tag other than 0, 1, 2, 10,
\* 2010/3010, 12, 2012/3012, 13, 2013/3013 with balanced parentheses is
\* skipped with exactly one warning, the points, the cells and both point
\* indices untouched, and the loop goes on behind the record.
C5_UnknownTag ==
    [][(mesh = None /\ pc = "read" /\ IsOther(Here)) =>
          /\ pc' = "read"
          /\ warnings' = warnings + 1
          /\ pos' \in {RecordEnd(file, pos), RecordEnd(file, pos) + 1}
          /\ UNCHANGED <<points, cells, first_point_index_overall,
                         last_point_index>>]_vars

MergedRows(old, expect, key) ==
    (IF key \in DOMAIN old THEN old[key].rows ELSE <<>>) \o RowsFor(expect, key)

\* C6: mixed face zone.  A text face zone of element type 0 puts the node
\* indices of each row, in row order, into the group of the row's own type
\* (2 line, 3 triangle, 4 quad), without the type tag and the two adjacent
\* cell ids, behind the rows the group held before; a row of type 0 or with
\* a field count other than arity + 3 is fatal.
C6_MixedFaceZone ==
    [][(mesh = None /\ pc = "read" /\ Here.family = 0 /\ Here.type = 0
            /\ Here.kind \in {"faces", "faces-bad"}) =>
          IF Here.kind = "faces-bad" THEN pc' = "failed" /\ ret' = None
          ELSE /\ pc' = "read"
               /\ DOMAIN cells' = DOMAIN cells \cup KeysOf(Here.expect)
               /\ \A key \in DOMAIN cells' :
                     cells'[key].rows = MergedRows(cells, Here.expect, key)]_vars

\* a mixed face zone has been read behind a zone that had stored triangles
C6_Witness ==
    /\ mesh = None /\ pc = "read" /\ pos > 1
    /\ LET q == EntriesUpTo(file, 1, pos + 1)
       IN  /\ Len(q) >= 2
           /\ q[Len(q)].kind = "faces" /\ q[Len(q)].family = 0 /\ q[Len(q)].type = 0
           /\ q[Len(q) - 1].kind = "cells" /\ q[Len(q) - 1].type = 1
    /\ "line" \in DOMAIN cells
    /\ Len(cells["triangle"].rows) = 4

\* C10: no decoded cell is lost.  The group returned for a key holds the
\* rows of all cell and face zones of that key, in stream order.
C10_NoCellLost ==
    ReadDone =>
        LET q == EntriesOf(file)
            base == ZonesOf(q)[1].first
        IN  /\ DOMAIN ret[1].cells = KeysOf(ExpectOf(q))
            /\ \A key \in KeysOf(ExpectOf(q)) :
                  ret[1].cells[key].rows = Shifted(RowsFor(ExpectOf(q), key), base)

\* the tags whose self-contained record is a count-only declaration
IsDeclarationTag(index) ==
    index \in {TagOf(family, section) : family \in {0, 2, 3}, section \in {0, 2, 3}}
AtDeclaration ==
    /\ AtRecord(NextLine(file, pos))
    /\ IsDeclarationTag(TagIndex(Line)) /\ SelfContained(Line)

\* C11: count-only declarations are skipped uniformly.  A self-contained
\* record of tag 10, 2010/3010, 12, 2012/3012, 13 or 2013/3013 raises
\* nothing, adds no point chunk and no cells, leaves
\* first_point_index_overall and last_point_index as they were, and the loop
\* goes on with the next record; a binary point declaration as a text one.
C11_CountOnlySkipped ==
    [][AtDeclaration =>
          /\ pc' = "read"
          /\ pos' = Behind
          /\ UNCHANGED <<points, cells, first_point_index_overall,
                         last_point_index>>]_vars


====
